---- MODULE Spec2Model ----
(***************************************************************************)
(* A model of the c011apsy wave-function-collapse engine                   *)
(* (src/include/c011apsy.hpp): the Bitset class, the tile extractor and    *)
(* adjacency learner of Wave::init, the observe/propagate loop of          *)
(* Wave::collapse, and the random generator as a deterministic but unknown *)
(* stream.                                                                 *)
(***************************************************************************)
EXTENDS Integers, Sequences, FiniteSets, TLC

(***************************************************************************)
(* Bounds of the model.                                                    *)
(***************************************************************************)
\* the field has at most MaxCells cells (W * H <= MaxCells)
MaxCells == 4
\* the exemplar pattern has at most MaxPatternCells elements
MaxPatternCells == 4
\* tile counts of a hand-made seed record are 1 .. MaxSeedTiles
MaxSeedTiles == 2
\* rndSeed arguments are 0 .. MaxRndSeed, and so are the values of rd()
MaxRndSeed == 1
\* SpecReinit lets the caller call init at most MaxInits times, on fields of
\* at most MaxReinitCells cells
MaxInits == 2
MaxReinitCells == 2
\* and with patterns of at most MaxReinitPatternCells elements
MaxReinitPatternCells == 2
\* SpecPair runs fields of at most MaxPairCells cells, with patterns of at
\* most MaxPairPatternCells elements
MaxPairCells == 2
MaxPairPatternCells == 3
\* SpecWide gives the engine a seed record of MaxWideSeedTiles tiles, on
\* fields of at most MaxWideCells cells
MaxWideSeedTiles == 3
MaxWideCells == 3
\* SpecDirected gives the engine a seed record of MaxDirectedSeedTiles tiles
\* with direction-dependent rules, on fields of at most MaxDirectedCells cells
MaxDirectedSeedTiles == 2
MaxDirectedCells == 4
\* SpecModes runs fields of at most MaxModesCells cells, with patterns of at
\* most MaxModesPatternCells elements
MaxModesCells == 3
MaxModesPatternCells == 3
\* SpecBitset constructs Bitset objects of at most MaxBitsetSize bits and
\* applies at most MaxBitsetOps operations to them
MaxBitsetSize == 128
MaxBitsetOps == 3

(***************************************************************************)
(* Program constants.                                                      *)
(***************************************************************************)
Stride == 64
Up == 0
Down == 1
Left == 2
Right == 3

Dirs == {Up, Down, Left, Right}
Engines == {1, 2}

Min(S) == CHOOSE x \in S : \A y \in S : x <= y

(***************************************************************************)
(* Bitset: m_size and m_data, a vector of 64-bit words.  A word is the set *)
(* of the positions (0 .. 63) of its one bits.                             *)
(***************************************************************************)
FullWord == 0 .. (Stride - 1)

\* word >> k for a shift count below the word width
Shr(word, k) == IF word = {} THEN {} ELSE {b - k : b \in {x \in word : x >= k}}

\* word >> k as the build can produce it: a count equal to the word width is
\* undefined behaviour (the hardware either masks the count or yields zero)
ShrOutcomes(word, k) == IF k < Stride THEN {Shr(word, k)} ELSE {word, {}}

\* n copies of v
Copies(n, v) == SubSeq([k \in 1 .. n |-> v], 1, n)

dataSize(size) == (size \div Stride) + (IF size % Stride > 0 THEN 1 ELSE 0)

\* the words after "m_data.back() >>= (Stride - m_size % Stride)"
MaskBack(size, data, back) == SubSeq(data, 1, Len(data) - 1) \o <<back>>

BitsetOutcomes(size, on) ==
    LET data == Copies(dataSize(size), IF on THEN FullWord ELSE {})
    IN  {[size |-> size, data |-> MaskBack(size, data, back)] :
            back \in ShrOutcomes(data[Len(data)], Stride - (size % Stride))}

\* Bitset::Bitset( size, on ); one outcome unless size is a multiple of Stride
Bitset(size, on) == CHOOSE b \in BitsetOutcomes(size, on) : TRUE

\* Bitset::operator[]
get(b, index) == (index % Stride) \in b.data[(index \div Stride) + 1]

\* Bitset::set
set(b, index, on) ==
    LET dataId == (index \div Stride) + 1
        bitId  == index % Stride
    IN  [b EXCEPT !.data[dataId] = IF on THEN @ \cup {bitId} ELSE @ \ {bitId}]

resetOutcomes(b, on) ==
    LET data == Copies(Len(b.data), IF on THEN FullWord ELSE {})
    IN  {[size |-> b.size, data |-> MaskBack(b.size, data, back)] :
            back \in ShrOutcomes(data[Len(data)], Stride - (b.size % Stride))}

\* Bitset::reset; one outcome unless size is a multiple of Stride
reset(b, on) == CHOOSE r \in resetOutcomes(b, on) : TRUE

\* Bitset::intersect
intersect(b, other) ==
    [b EXCEPT !.data = SubSeq([i \in 1 .. Len(b.data) |-> b.data[i] \cap other.data[i]],
                              1, Len(b.data))]

\* Bitset::add
add(b, other) ==
    [b EXCEPT !.data = SubSeq([i \in 1 .. Len(b.data) |-> b.data[i] \cup other.data[i]],
                              1, Len(b.data))]

\* Bitset::empty
empty(b) == \A i \in 1 .. Len(b.data) : b.data[i] = {}

RECURSIVE SumCard(_, _)
SumCard(data, i) ==
    IF i > Len(data) THEN 0 ELSE Cardinality(data[i]) + SumCard(data, i + 1)

\* Bitset::count
count(b) == SumCard(b.data, 1)

RECURSIVE SingleFrom(_, _, _)
SingleFrom(data, i, result) ==
    IF i > Len(data) THEN result
    ELSE IF data[i] = {} THEN SingleFrom(data, i + 1, result)
    ELSE IF result \/ Cardinality(data[i]) > 1 THEN FALSE
    ELSE SingleFrom(data, i + 1, TRUE)

\* Bitset::single
single(b) == SingleFrom(b.data, 1, FALSE)

\* Bitset::first
first(b) ==
    LET nz == {i \in 1 .. Len(b.data) : b.data[i] # {}}
    IN  IF nz = {} THEN b.size
        ELSE (Min(nz) - 1) * Stride + Min(b.data[Min(nz)])

\* the set of the indices below m_size whose bit is on
Bits(b) == {i \in 0 .. (b.size - 1) : get(b, i)}

(***************************************************************************)
(* Wave<T>::Neighbors and Wave<T>::Seed.  Tile id i is entry i + 1 of      *)
(* tiles, weights and neighbors.                                           *)
(***************************************************************************)
Neighbors(tiles) ==
    [up |-> Bitset(tiles, FALSE), down |-> Bitset(tiles, FALSE),
     left |-> Bitset(tiles, FALSE), right |-> Bitset(tiles, FALSE)]

\* Neighbors::operator[]
nbGet(nb, dir) ==
    CASE dir = Up -> nb.up
      [] dir = Down -> nb.down
      [] dir = Left -> nb.left
      [] OTHER -> nb.right

\* the Neighbors with the Bitset of direction dir replaced
nbPut(nb, dir, b) ==
    CASE dir = Up -> [nb EXCEPT !.up = b]
      [] dir = Down -> [nb EXCEPT !.down = b]
      [] dir = Left -> [nb EXCEPT !.left = b]
      [] OTHER -> [nb EXCEPT !.right = b]

EmptySeed == [tiles |-> <<>>, weights |-> <<>>, neighbors |-> <<>>, rndSeed |-> 0]

\* Wave::revDir
revDir(dir) ==
    CASE dir = Up -> Down
      [] dir = Down -> Up
      [] dir = Left -> Right
      [] dir = Right -> Left
      [] OTHER -> Up

\* memcmp of len elements of a from offset oa (0-based) with b from offset ob
MemEq(a, oa, b, ob, len) == \A k \in 1 .. len : a[oa + k] = b[ob + k]

\* the comparison with the two offsets exchanged
isNeighborSwapped(original, candidate, dir, w, h) ==
    LET offset2 == dir % 2
        offset1 == 1 - offset2
    IN  IF dir \in {Up, Down}
        THEN MemEq(original, offset1 * w, candidate, offset2 * w, w * (h - 1))
        ELSE \A y \in 0 .. (h - 1) :
                MemEq(original, y * w + offset1, candidate, y * w + offset2, w - 1)

\* Wave::isNeighbor
isNeighbor(original, candidate, dir, w, h) ==
    LET offset1 == dir % 2
        offset2 == 1 - offset1
    IN  IF dir \in {Up, Down}
        THEN MemEq(original, offset1 * w, candidate, offset2 * w, w * (h - 1))
        ELSE \A y \in 0 .. (h - 1) :
                MemEq(original, y * w + offset1, candidate, y * w + offset2, w - 1)

(***************************************************************************)
(* Wave::init( pattern, ... ): the tile extractor.                         *)
(***************************************************************************)
\* the block copied row by row from origin (x, y)
TileAt(pattern, patternWidth, tileWidth, tileHeight, x, y) ==
    [k \in 1 .. (tileWidth * tileHeight) |->
        pattern[(y + ((k - 1) \div tileWidth)) * patternWidth + x
                + ((k - 1) % tileWidth) + 1]]

\* std::find: the first index of tile in tiles, or 0
FindTile(tiles, tile) ==
    LET hits == {i \in 1 .. Len(tiles) : tiles[i] = tile}
    IN  IF hits = {} THEN 0 ELSE Min(hits)

\* the body of the two extraction loops for one origin; acc holds the local
\* vector tiles and m_seed.tiles, m_seed.weights
ExtractOne(acc, tile) ==
    LET findIt == FindTile(acc.tiles, tile)
    IN  IF findIt = 0
        THEN [tiles   |-> Append(acc.tiles, tile),
              stiles  |-> Append(acc.stiles, tile[1]),
              weights |-> Append(acc.weights, 1)]
        ELSE [acc EXCEPT !.weights[findIt] = @ + 1]

\* the origins scanned with y in the outer loop and x in the inner loop
OriginsRowFirst(patternWidth, patternHeight, tileWidth, tileHeight) ==
    LET ny == patternHeight - tileHeight + 1
        nx == patternWidth - tileWidth + 1
    IN  [k \in 1 .. (nx * ny) |-> [x |-> (k - 1) % nx, y |-> (k - 1) \div nx]]

\* the origins in scanning order: x in the outer loop, y in the inner loop
Origins(patternWidth, patternHeight, tileWidth, tileHeight) ==
    LET ny == patternHeight - tileHeight + 1
        nx == patternWidth - tileWidth + 1
    IN  [k \in 1 .. (nx * ny) |-> [x |-> (k - 1) \div ny, y |-> (k - 1) % ny]]

RECURSIVE ExtractFrom(_, _, _, _, _, _, _)
ExtractFrom(acc, origins, k, pattern, patternWidth, tileWidth, tileHeight) ==
    IF k > Len(origins) THEN acc
    ELSE ExtractFrom(
            ExtractOne(acc, TileAt(pattern, patternWidth, tileWidth, tileHeight,
                                   origins[k].x, origins[k].y)),
            origins, k + 1, pattern, patternWidth, tileWidth, tileHeight)

ExtractTiles(seed, pattern, patternWidth, patternHeight, tileWidth, tileHeight) ==
    ExtractFrom([tiles |-> <<>>, stiles |-> seed.tiles, weights |-> seed.weights],
                Origins(patternWidth, patternHeight, tileWidth, tileHeight), 1,
                pattern, patternWidth, tileWidth, tileHeight)

(***************************************************************************)
(* Wave::init( pattern, ... ): the adjacency learner.                      *)
(***************************************************************************)
\* std::vector::resize( n, value )
Resize(vec, n, value) ==
    IF n <= Len(vec) THEN SubSeq(vec, 1, n) ELSE vec \o Copies(n - Len(vec), value)

\* a loop body that writes R[i][dir][j] only, without the mirrored write
LearnOneWay(acc, tiles, i, dir, j, tileWidth, tileHeight) ==
    IF ~acc.ok \/ ~isNeighbor(tiles[i + 1], tiles[j + 1], dir, tileWidth, tileHeight)
    THEN acc
    ELSE IF j >= nbGet(acc.nb[i + 1], dir).size
    THEN [acc EXCEPT !.ok = FALSE]
    ELSE [acc EXCEPT !.nb[i + 1] = nbPut(@, dir, set(nbGet(@, dir), j, TRUE))]

\* the loop body for one (i, dir, j): the two symmetric writes.  ok turns
\* false when Bitset::set's index assertion fails.
LearnOne(acc, tiles, i, dir, j, tileWidth, tileHeight) ==
    IF ~acc.ok \/ ~isNeighbor(tiles[i + 1], tiles[j + 1], dir, tileWidth, tileHeight)
    THEN acc
    ELSE IF j >= nbGet(acc.nb[i + 1], dir).size
            \/ i >= nbGet(acc.nb[j + 1], revDir(dir)).size
    THEN [acc EXCEPT !.ok = FALSE]
    ELSE LET nb1 == [acc.nb EXCEPT ![i + 1] =
                        nbPut(@, dir, set(nbGet(@, dir), j, TRUE))]
             nb2 == [nb1 EXCEPT ![j + 1] =
                        nbPut(@, revDir(dir), set(nbGet(@, revDir(dir)), i, TRUE))]
         IN  [acc EXCEPT !.nb = nb2]

\* for ( size_t j = i; j < tiles.size(); ++j )
RECURSIVE LearnLoopJ(_, _, _, _, _, _, _)
LearnLoopJ(acc, tiles, i, dir, j, tileWidth, tileHeight) ==
    IF ~acc.ok \/ j >= Len(tiles) THEN acc
    ELSE LearnLoopJ(LearnOne(acc, tiles, i, dir, j, tileWidth, tileHeight),
                    tiles, i, dir, j + 1, tileWidth, tileHeight)

\* for ( int dir = 0; dir < Dir::Count; ++dir )
RECURSIVE LearnLoopDir(_, _, _, _, _, _)
LearnLoopDir(acc, tiles, i, dir, tileWidth, tileHeight) ==
    IF ~acc.ok \/ dir >= 4 THEN acc
    ELSE LearnLoopDir(LearnLoopJ(acc, tiles, i, dir, i, tileWidth, tileHeight),
                      tiles, i, dir + 1, tileWidth, tileHeight)

\* for ( size_t i = 0; i < tiles.size(); ++i )
RECURSIVE LearnLoopI(_, _, _, _, _)
LearnLoopI(acc, tiles, i, tileWidth, tileHeight) ==
    IF ~acc.ok \/ i >= Len(tiles) THEN acc
    ELSE LearnLoopI(LearnLoopDir(acc, tiles, i, 0, tileWidth, tileHeight),
                    tiles, i + 1, tileWidth, tileHeight)

LearnNeighbors(neighbors, tiles, tileWidth, tileHeight) ==
    LearnLoopI([nb |-> Resize(neighbors, Len(tiles), Neighbors(Len(tiles))), ok |-> TRUE],
               tiles, 0, tileWidth, tileHeight)

(***************************************************************************)
(* The engine.  An engine is a record of the members of Wave<T>:           *)
(* m_seed, m_allTiles, m_possibleNeighbors, m_mt, m_field, m_fieldW,       *)
(* m_fieldH, m_uncertaintyCurrent.  Cell id c is entry c + 1 of m_field.   *)
(***************************************************************************)
\* Wave::Wave
Wave(width, height) ==
    [m_seed |-> EmptySeed,
     m_allTiles |-> Bitset(1, FALSE),
     m_possibleNeighbors |-> <<>>,
     m_mt |-> [seeded |-> FALSE, seed |-> 0, pos |-> 0],
     m_field |-> <<>>,
     m_fieldW |-> width,
     m_fieldH |-> height,
     m_uncertaintyCurrent |-> width * height]

\* Wave::fieldIndex
fieldIndex(w, x, y) == y * w.m_fieldW + x

\* Wave::getNeighbor
getNeighbor(w, x, y, dir) ==
    CASE dir = Up /\ y > 0 -> w.m_field[fieldIndex(w, x, y - 1) + 1]
      [] dir = Down /\ y < w.m_fieldH - 1 -> w.m_field[fieldIndex(w, x, y + 1) + 1]
      [] dir = Left /\ x > 0 -> w.m_field[fieldIndex(w, x - 1, y) + 1]
      [] dir = Right /\ x < w.m_fieldW - 1 -> w.m_field[fieldIndex(w, x + 1, y) + 1]
      [] OTHER -> w.m_allTiles

\* an initField that fills the field with empty candidate sets
initFieldEmpty(w) ==
    LET n == Len(w.m_seed.tiles)
    IN  [w EXCEPT
            !.m_possibleNeighbors = @ \o [i \in 1 .. 4 |-> Bitset(n, FALSE)],
            !.m_allTiles = Bitset(n, TRUE),
            !.m_field = Resize(@, w.m_fieldW * w.m_fieldH, Bitset(n, FALSE))]

\* Wave::initField
initField(w) ==
    LET n == Len(w.m_seed.tiles)
    IN  [w EXCEPT
            !.m_possibleNeighbors = @ \o [i \in 1 .. 4 |-> Bitset(n, FALSE)],
            !.m_allTiles = Bitset(n, TRUE),
            !.m_field = Resize(@, w.m_fieldW * w.m_fieldH, Bitset(n, TRUE))]

\* Wave::initRandom, rd being the value std::random_device returns
initRandom(w, rd) ==
    LET rndSeed == IF w.m_seed.rndSeed = 0 THEN rd ELSE w.m_seed.rndSeed
    IN  [w EXCEPT !.m_seed.rndSeed = rndSeed,
                  !.m_mt = [seeded |-> TRUE, seed |-> rndSeed, pos |-> 0]]

(***************************************************************************)
(* Wave::filterCandidates.  The result holds the engine after the call,    *)
(* whether the cell was empty on entry (refilled), whether the             *)
(* empty-intersection fallback fired, and ok: false when an assertion of   *)
(* Bitset fails or a vector is read out of its bounds.                     *)
(***************************************************************************)
\* the inner loop: m_possibleNeighbors[dir] after adding the rules of every
\* tile i possible in cellNeighbors, from tile i on
RECURSIVE AddNeighbors(_, _, _, _, _)
AddNeighbors(pn, cellNeighbors, neighbors, dir, i) ==
    IF i >= cellNeighbors.size THEN pn
    ELSE IF get(cellNeighbors, i)
    THEN AddNeighbors(add(pn, nbGet(neighbors[i + 1], revDir(dir))),
                      cellNeighbors, neighbors, dir, i + 1)
    ELSE AddNeighbors(pn, cellNeighbors, neighbors, dir, i + 1)

\* a filter for which every tile is allowed in every direction
allowedAnyTile(w, id, dir) == w.m_allTiles

\* m_possibleNeighbors[dir] as the loop over dir leaves it
allowed(w, id, dir) ==
    AddNeighbors(reset(w.m_possibleNeighbors[dir + 1], FALSE),
                 getNeighbor(w, id % w.m_fieldW, id \div w.m_fieldW, dir),
                 w.m_seed.neighbors, dir, 0)

\* the assertions and vector bounds the loop over dir relies on
filterOk(w, id) ==
    /\ Len(w.m_possibleNeighbors) >= 4
    /\ \A dir \in Dirs :
        LET cn == getNeighbor(w, id % w.m_fieldW, id \div w.m_fieldW, dir)
        IN  /\ w.m_possibleNeighbors[dir + 1].size = w.m_field[id + 1].size
            /\ \A i \in 0 .. (cn.size - 1) :
                  get(cn, i) =>
                     /\ i < Len(w.m_seed.neighbors)
                     /\ nbGet(w.m_seed.neighbors[i + 1], revDir(dir)).size
                            = w.m_possibleNeighbors[dir + 1].size

\* a filter that intersects with the sets of Up and Down only
intersectUpDown(cell, pn, n) == intersect(intersect(cell, pn[1]), pn[2])

\* candidates.intersect( m_possibleNeighbors[dir] ) for dir = 0 .. n - 1
RECURSIVE intersectAll(_, _, _)
intersectAll(cell, pn, n) ==
    IF n = 0 THEN cell ELSE intersect(intersectAll(cell, pn, n - 1), pn[n])

\* candidates.add( m_possibleNeighbors[i] ) for i = 0 .. n - 1
RECURSIVE addAll(_, _, _)
addAll(cell, pn, n) ==
    IF n = 0 THEN cell ELSE add(addAll(cell, pn, n - 1), pn[n])

filterCandidates(w, id) ==
    IF ~filterOk(w, id)
    THEN [w |-> w, refilled |-> FALSE, fallback |-> FALSE, ok |-> FALSE]
    ELSE
    LET cell0 == w.m_field[id + 1]
        cell1 == IF empty(cell0) THEN reset(cell0, TRUE) ELSE cell0
        pn == SubSeq([d \in 1 .. 4 |-> allowed(w, id, d - 1)], 1, 4)
              \o SubSeq(w.m_possibleNeighbors, 5, Len(w.m_possibleNeighbors))
        cell2 == intersectAll(cell1, pn, 4)
        cell3 == IF empty(cell2) THEN addAll(cell2, pn, 4) ELSE cell2
    IN  [w |-> [w EXCEPT !.m_field[id + 1] = cell3, !.m_possibleNeighbors = pn],
         refilled |-> empty(cell0),
         fallback |-> empty(cell2),
         ok |-> TRUE]

(***************************************************************************)
(* Wave::collapseCell.                                                     *)
(***************************************************************************)
\* candidates.insert( end, weights[i], i ) for the tiles i, i + 1, ... of the
\* cell (of every tile when all is true)
RECURSIVE PoolFrom(_, _, _, _, _)
PoolFrom(cell, weights, all, limit, i) ==
    IF i >= limit THEN <<>>
    ELSE IF all \/ get(cell, i)
    THEN Copies(weights[i + 1], i) \o PoolFrom(cell, weights, all, limit, i + 1)
    ELSE PoolFrom(cell, weights, all, limit, i + 1)

\* a pool that holds every candidate once, whatever its weight
RECURSIVE PoolFromOnce(_, _, _, _)
PoolFromOnce(cell, all, limit, i) ==
    IF i >= limit THEN <<>>
    ELSE IF all \/ get(cell, i)
    THEN <<i>> \o PoolFromOnce(cell, all, limit, i + 1)
    ELSE PoolFromOnce(cell, all, limit, i + 1)

PoolUnweighted(w, id) ==
    LET cell == w.m_field[id + 1]
    IN  IF empty(cell)
        THEN PoolFromOnce(cell, TRUE, Len(w.m_seed.tiles), 0)
        ELSE PoolFromOnce(cell, FALSE, cell.size, 0)

\* the vector candidates that collapseCell draws from, for the filtered cell
Pool(w, id) ==
    LET cell == w.m_field[id + 1]
    IN  IF empty(cell)
        THEN PoolFrom(cell, w.m_seed.weights, TRUE, Len(w.m_seed.tiles), 0)
        ELSE PoolFrom(cell, w.m_seed.weights, FALSE, cell.size, 0)

\* the reads of m_seed.weights stay inside the vector
poolOk(w, id) ==
    LET cell == w.m_field[id + 1]
    IN  IF empty(cell)
        THEN Len(w.m_seed.tiles) <= Len(w.m_seed.weights)
        ELSE \A i \in Bits(cell) : i < Len(w.m_seed.weights)

\* a collapseCell that clears the cell and sets no bit
placeTileNoSet(w, id, startTile) ==
    [w EXCEPT !.m_field[id + 1] = reset(@, FALSE)]

\* the end of collapseCell: the cell becomes the singleton of startTile
placeTile(w, id, startTile) ==
    [w EXCEPT !.m_field[id + 1] = set(reset(@, FALSE), startTile, TRUE)]

(***************************************************************************)
(* Wave::propagate and the wavefront loop of Wave::collapseStep.           *)
(***************************************************************************)
\* the in-bounds neighbors of id0 in the order Up, Down, Left, Right
NeighborIds(w, id0) ==
    LET x == id0 % w.m_fieldW
        y == id0 \div w.m_fieldW
    IN  (IF y > 0 THEN <<fieldIndex(w, x, y - 1)>> ELSE <<>>)
        \o (IF y < w.m_fieldH - 1 THEN <<fieldIndex(w, x, y + 1)>> ELSE <<>>)
        \o (IF x > 0 THEN <<fieldIndex(w, x - 1, y)>> ELSE <<>>)
        \o (IF x < w.m_fieldW - 1 THEN <<fieldIndex(w, x + 1, y)>> ELSE <<>>)

\* the cells one call of Wave::propagate pushes, in the order of the pushes
pushes(w, id0, visited) ==
    SelectSeq(NeighborIds(w, id0),
              LAMBDA id : ~visited[id + 1] /\ ~single(w.m_field[id + 1]))

\* a queue that hands out the newest cells first
propagateFront(w, id0, wavefront, visited) ==
    pushes(w, id0, visited) \o wavefront

\* Wave::propagate: the wavefront with the pushed neighbors appended
propagate(w, id0, wavefront, visited) ==
    wavefront \o pushes(w, id0, visited)

\* the while loop of collapseStep.  st holds the engine w, the queue
\* collapseFront, visited, and the record of the step: the calls of the
\* callback in order (cb: the cell, and whether the callback finds it with
\* exactly one candidate), the cells passed through the filter (filtered),
\* those whose candidate set the filter changed (changed), those where the
\* fallback fired (fell), the cells pushed and the cells taken from the
\* front of the queue, each in order (pushed, popped), and ok.
RECURSIVE wavefrontLoop(_)
wavefrontLoop(st) ==
    IF st.collapseFront = <<>> \/ ~st.ok THEN st
    ELSE
    LET currentId == Head(st.collapseFront)
        popped == [st EXCEPT !.collapseFront = Tail(@),
                             !.popped = Append(@, currentId)]
    IN  IF st.visited[currentId + 1] THEN wavefrontLoop(popped)
        ELSE
        LET marked == [popped EXCEPT !.visited[currentId + 1] = TRUE]
            initialVariance == count(st.w.m_field[currentId + 1])
        IN  IF initialVariance = 1 THEN wavefrontLoop(marked)
            ELSE
            LET f == filterCandidates(st.w, currentId)
                changed == initialVariance # count(f.w.m_field[currentId + 1])
            IN  IF ~f.ok THEN [marked EXCEPT !.ok = FALSE]
                ELSE wavefrontLoop(
                    [marked EXCEPT
                        !.w = f.w,
                        !.collapseFront =
                            IF changed
                            THEN propagate(f.w, currentId, @, marked.visited)
                            ELSE @,
                        !.pushed =
                            IF changed
                            THEN @ \o pushes(f.w, currentId, marked.visited)
                            ELSE @,
                        !.filtered = Append(@, currentId),
                        !.fell = IF f.fallback THEN @ \cup {currentId} ELSE @,
                        !.changed =
                            IF f.w.m_field[currentId + 1] # st.w.m_field[currentId + 1]
                            THEN @ \cup {currentId} ELSE @,
                        !.cb = Append(@, [id |-> currentId,
                                          single |-> single(f.w.m_field[currentId + 1])])])

\* Wave::collapseStep after collapseCell has left w: the callback for id0,
\* visited preseeded with the singleton cells, the first propagate, the loop
propagateStep(w, id0) ==
    LET visited == [i \in 1 .. Len(w.m_field) |-> single(w.m_field[i])]
    IN  wavefrontLoop([w |-> w,
                       collapseFront |-> propagate(w, id0, <<>>, visited),
                       visited |-> visited,
                       cb |-> <<[id |-> id0, single |-> single(w.m_field[id0 + 1])]>>,
                       filtered |-> <<>>,
                       changed |-> {},
                       fell |-> {},
                       pushed |-> pushes(w, id0, visited),
                       popped |-> <<>>,
                       ok |-> TRUE])

(***************************************************************************)
(* Wave::getCollapsePoint, up to the random draw: totalUncertainty and the *)
(* vector uncollapsed.                                                     *)
(***************************************************************************)
RECURSIVE scanField(_, _, _)
scanField(w, i, acc) ==
    IF i >= Len(w.m_field) THEN acc
    ELSE
    LET len == count(w.m_field[i + 1])
        acc1 == [acc EXCEPT !.totalUncertainty = @ + len]
    IN  IF len > 1 /\ len <= acc.uncollapsedMax
        THEN scanField(w, i + 1,
                [acc1 EXCEPT
                    !.uncollapsed = IF len = acc.uncollapsedMax
                                    THEN Append(@, i)
                                    ELSE <<i>>,
                    !.uncollapsedMax = len])
        ELSE scanField(w, i + 1, acc1)

\* a scan that collects every cell of count > 1, whatever its count
RECURSIVE scanFieldAny(_, _, _)
scanFieldAny(w, i, acc) ==
    IF i >= Len(w.m_field) THEN acc
    ELSE
    LET len == count(w.m_field[i + 1])
        acc1 == [acc EXCEPT !.totalUncertainty = @ + len]
    IN  IF len > 1
        THEN scanFieldAny(w, i + 1, [acc1 EXCEPT !.uncollapsed = Append(@, i)])
        ELSE scanFieldAny(w, i + 1, acc1)

getCollapsePointAny(w) ==
    scanFieldAny(w, 0, [totalUncertainty |-> 0, uncollapsed |-> <<>>,
                        uncollapsedMax |-> Len(w.m_seed.tiles)])

\* a choice among all the cells, the collapsed ones included
getCollapsePointAll(w) ==
    [getCollapsePointAny(w) EXCEPT
        !.uncollapsed = SubSeq([i \in 1 .. Len(w.m_field) |-> i - 1], 1, Len(w.m_field))]

getCollapsePoint(w) ==
    scanField(w, 0, [totalUncertainty |-> 0, uncollapsed |-> <<>>,
                     uncollapsedMax |-> Len(w.m_seed.tiles)])

(***************************************************************************)
(* Wave::getUncertainty: the quotient of m_uncertaintyCurrent by           *)
(* static_cast<float>( m_field.size() ), kept as the pair of its terms.    *)
(* Both terms are far below 2^24, so their conversion to float is exact    *)
(* and the correctly rounded quotients of two pairs are equal, or ordered, *)
(* as the fractions are.                                                   *)
(***************************************************************************)
\* a getUncertainty that divides the other way round
getUncertaintyInverse(w) == [num |-> Len(w.m_field), den |-> w.m_uncertaintyCurrent]

getUncertainty(w) == [num |-> w.m_uncertaintyCurrent, den |-> Len(w.m_field)]

\* the float q compared with the float a / b (b > 0)
FloatEq(q, a, b) == q.den # 0 /\ q.num * b = a * q.den
FloatLeq(q, a, b) == q.den # 0 /\ q.num * b <= a * q.den

(***************************************************************************)
(* State.                                                                  *)
(*   wave[e]   the engine e (a Wave<T> object)                             *)
(*   call[e]   where the current collapse call of e stands: pc ("idle",    *)
(*             "loop" at the head of the while loop, "abort" after a       *)
(*             failed assertion or an out-of-bounds read), its argument    *)
(*             oneStep, its local id0, and the last value returned (ret)   *)
(*   stream    what std::mt19937_64 has been seen to produce: for every    *)
(*             seed value the draws made so far, position by position.     *)
(*             The generator is deterministic, so two generators seeded    *)
(*             alike that ask for the same range at the same position get  *)
(*             the same value.  It is kept only when plan.record is set;   *)
(*             without it every draw is arbitrary, which is every          *)
(*             behaviour of a generator that is seeded once                *)
(*   hist[e]   history of e, read by the properties only: the number of    *)
(*             init calls (inits) and, since the last one, the arguments   *)
(*             of the init until collapse is called (args), the            *)
(*             observations made (obs; obsInCall in the current call),     *)
(*             the one-step calls that returned false (falseRets), the     *)
(*             cells where the filter's fallback fired (fell), the cells   *)
(*             observed through the empty-cell branch (emptyObs), the      *)
(*             field at the entry of the current call (entryField), the    *)
(*             modes collapse was called in (modes), and of the last       *)
(*             observation step of the current call: the cell observed     *)
(*             (lastObs), the calls of the callback in order (cb) and the  *)
(*             cells whose set the propagation changed (changed); and      *)
(*             the size of the pattern of the last init when its window    *)
(*             was the whole pattern, otherwise 0 (fullWindow)             *)
(*   plan      the caller's notes: its phase, whether stream is kept       *)
(*             (record), the arguments of its first init (args), the mode  *)
(*             it collapses in (oneStep), how it initialized the second    *)
(*             time (kind), the engine it is collapsing (eng) and the      *)
(*             field the first run ended with (out)                        *)
(*   bits      the Bitset objects of SpecBitset, the specification of the  *)
(*             Bitset class on its own; empty in the specifications of     *)
(*             the engine                                                  *)
(***************************************************************************)
VARIABLES wave, call, stream, hist, plan, bits

vars == <<wave, call, stream, hist, plan, bits>>

\* the values of the element type T
Colors == {"A", "B", "C"}
RndSeeds == 0 .. MaxRndSeed

\* the field dimensions of the model
FieldDims == {d \in (1 .. MaxCells) \X (1 .. MaxCells) : d[1] * d[2] <= MaxCells}

\* the pattern and window dimensions <<pw, ph, tw, th>> of the patterns of at
\* most maxCells elements
PatternDims(maxCells) ==
    {d \in (1 .. maxCells) \X (1 .. maxCells) \X (1 .. maxCells) \X (1 .. maxCells) :
        d[1] * d[2] <= maxCells /\ d[3] <= d[1] /\ d[4] <= d[2]}

\* the Bitset of length n whose on bits are S
BitsetOf(n, S) == [size |-> n, data |-> <<S>>]

\* hand-made seed records of n tiles: tile i of weight i + 1, and for every
\* tile any set of tiles as its neighbors (the same in the four directions)
SeedRecordsOf(n) ==
    {[tiles |-> [i \in 1 .. n |-> "A"],
      weights |-> [i \in 1 .. n |-> i],
      neighbors |-> [i \in 1 .. n |->
                        [up |-> BitsetOf(n, nb[i]), down |-> BitsetOf(n, nb[i]),
                         left |-> BitsetOf(n, nb[i]), right |-> BitsetOf(n, nb[i])]],
      rndSeed |-> rs] :
        nb \in [1 .. n -> SUBSET (0 .. (n - 1))],
        rs \in RndSeeds}

SeedRecords == UNION {SeedRecordsOf(n) : n \in 1 .. MaxSeedTiles}

NoArgs == [form |-> "none"]

NewHist ==
    [inits |-> 0, args |-> NoArgs, obs |-> 0, obsInCall |-> 0, falseRets |-> 0,
     fell |-> {}, emptyObs |-> {}, entryField |-> <<>>, modes |-> {},
     lastObs |-> 0, cb |-> <<>>, changed |-> {}, fullWindow |-> 0]

\* the caller's notes before it has done anything
NewPlan(record) ==
    [phase |-> "start", record |-> record, args |-> NoArgs, oneStep |-> FALSE,
     kind |-> "none", eng |-> 1, out |-> <<>>]

\* two engines constructed with the same dimensions, of at most maxCells cells
InitWith(maxCells, record) ==
    \E d \in FieldDims :
        /\ d[1] * d[2] <= maxCells
        /\ wave = [e \in Engines |-> Wave(d[1], d[2])]
        /\ call = [e \in Engines |->
                      [pc |-> "idle", oneStep |-> FALSE, id0 |-> 0, ret |-> "none"]]
        /\ stream = [s \in RndSeeds |-> <<>>]
        /\ hist = [e \in Engines |-> NewHist]
        /\ plan = NewPlan(record)
        /\ bits = <<>>

Init == InitWith(MaxCells, FALSE)

(***************************************************************************)
(* The random generator.  A draw of std::uniform_int_distribution over     *)
(* 0 .. n - 1 from generator mt: the outcomes [v, mt, stream].             *)
\* a generator whose output does not depend on its seed and position
DrawUnseeded(st, mt, n) ==
    {[v |-> x, mt |-> [mt EXCEPT !.pos = @ + 1], stream |-> st] : x \in 0 .. (n - 1)}

(***************************************************************************)
Draw(st, mt, n) ==
    LET k == mt.pos + 1
        seen == st[mt.seed]
        mt1 == [mt EXCEPT !.pos = k]
    IN  IF k <= Len(seen) /\ seen[k].n = n
        THEN {[v |-> seen[k].v, mt |-> mt1, stream |-> st]}
        ELSE IF k <= Len(seen) \/ ~plan.record
        THEN {[v |-> x, mt |-> mt1, stream |-> st] : x \in 0 .. (n - 1)}
        ELSE {[v |-> x, mt |-> mt1,
               stream |-> [st EXCEPT ![mt.seed] = Append(seen, [n |-> n, v |-> x])]] :
                 x \in 0 .. (n - 1)}

\* the end of getCollapsePoint: a draw among uncollapsed, or 0 without a draw
PointOutcomes(st, mt, uncollapsed) ==
    IF uncollapsed # <<>>
    THEN {[id |-> uncollapsed[d.v + 1], mt |-> d.mt, stream |-> d.stream] :
            d \in Draw(st, mt, Len(uncollapsed))}
    ELSE {[id |-> 0, mt |-> mt, stream |-> st]}

(***************************************************************************)
(* Wave::init( const Seed& )                                               *)
(***************************************************************************)
InitFromSeed(e, seed, rd) ==
    /\ call[e].pc = "idle"
    /\ wave' = [wave EXCEPT ![e] = initField(initRandom([@ EXCEPT !.m_seed = seed], rd))]
    /\ hist' = [hist EXCEPT ![e] =
                    [NewHist EXCEPT !.inits = hist[e].inits + 1,
                                    !.args = [form |-> "seed", seed |-> seed]]]
    /\ UNCHANGED <<call, stream>>

(***************************************************************************)
(* Wave::init( pattern, patternWidth, patternHeight, tileWidth,            *)
(* tileHeight, rndSeed )                                                   *)
(***************************************************************************)
\* m_seed as the extractor and the learner leave it, and whether every
\* assertion held
patternSeed(seed, pattern, pw, ph, tw, th, rndSeed) ==
    LET ex == ExtractTiles(seed, pattern, pw, ph, tw, th)
        ln == LearnNeighbors(seed.neighbors, ex.tiles, tw, th)
    IN  [seed |-> [tiles |-> ex.stiles, weights |-> ex.weights,
                   neighbors |-> ln.nb, rndSeed |-> rndSeed],
         blocks |-> ex.tiles,
         ok |-> ln.ok]

InitFromPattern(e, pattern, pw, ph, tw, th, rndSeed, rd) ==
    /\ call[e].pc = "idle"
    /\ \E ps \in {patternSeed(wave[e].m_seed, pattern, pw, ph, tw, th, rndSeed)} :
        /\ ps.ok
        /\ wave' = [wave EXCEPT ![e] = initField(initRandom([@ EXCEPT !.m_seed = ps.seed], rd))]
        /\ hist' = [hist EXCEPT ![e] =
                        [NewHist EXCEPT
                            !.inits = hist[e].inits + 1,
                            !.args = [form |-> "pattern", pattern |-> pattern,
                                      pw |-> pw, ph |-> ph, tw |-> tw, th |-> th,
                                      rndSeed |-> rndSeed, blocks |-> ps.blocks],
                            !.fullWindow = IF tw = pw /\ th = ph THEN pw * ph ELSE 0]]
        /\ UNCHANGED <<call, stream>>

\* a Bitset::set assertion of the learner fails
InitAbort(e, pattern, pw, ph, tw, th, rndSeed) ==
    /\ call[e].pc = "idle"
    /\ ~patternSeed(wave[e].m_seed, pattern, pw, ph, tw, th, rndSeed).ok
    /\ call' = [call EXCEPT ![e].pc = "abort"]
    /\ UNCHANGED <<wave, stream, hist>>

(***************************************************************************)
(* Wave::collapse( oneStep, c )                                            *)
(***************************************************************************)
\* the entry of collapse, up to the head of the while loop
CollapseCall(e, oneStep) ==
    /\ call[e].pc = "idle"
    /\ wave[e].m_field # <<>>
    /\ \E gp \in {getCollapsePoint(wave[e])} :
       \E p \in PointOutcomes(stream, wave[e].m_mt, gp.uncollapsed) :
          /\ wave' = [wave EXCEPT ![e].m_uncertaintyCurrent = gp.totalUncertainty,
                                  ![e].m_mt = p.mt]
          /\ stream' = p.stream
          /\ call' = [call EXCEPT ![e] =
                          [pc |-> "loop", oneStep |-> oneStep, id0 |-> p.id,
                           ret |-> "none"]]
    /\ hist' = [hist EXCEPT ![e].obsInCall = 0,
                            ![e].entryField = wave[e].m_field,
                            ![e].args = NoArgs,
                            ![e].modes = @ \cup {oneStep},
                            ![e].lastObs = 0,
                            ![e].cb = <<>>,
                            ![e].changed = {}]

\* collapseCell up to its draw: the filtered engine, the pool, and ok
observePrep(w, id) ==
    LET f == filterCandidates(w, id)
    IN  IF ~f.ok \/ ~poolOk(f.w, id)
        THEN [f |-> f, pool |-> <<>>, ok |-> FALSE]
        ELSE [f |-> f, pool |-> Pool(f.w, id), ok |-> Pool(f.w, id) # <<>>]

\* collapseStep for the drawn tile: collapseCell's end and the propagation
stepAfterDraw(w, id, startTile) ==
    IF startTile >= w.m_field[id + 1].size
    THEN [w |-> w, cb |-> <<>>, changed |-> {}, fell |-> {}, ok |-> FALSE]
    ELSE propagateStep(placeTile(w, id, startTile), id)

\* an assertion fails or a vector is read out of bounds in collapseStep, for
\* some tile that can be drawn
stepFails(w, id) ==
    LET op == observePrep(w, id)
    IN  \/ ~op.ok
        \/ \E r \in 1 .. Len(op.pool) : ~stepAfterDraw(op.f.w, id, op.pool[r]).ok

\* one pass through the body of the while loop: collapseStep,
\* getCollapsePoint, and the return of the one-step form
CollapseIterate(e) ==
    /\ call[e].pc = "loop"
    /\ wave[e].m_uncertaintyCurrent > Len(wave[e].m_field)
    /\ \E op \in {observePrep(wave[e], call[e].id0)} :
        /\ op.ok
        /\ \E d \in Draw(stream, wave[e].m_mt, Len(op.pool)) :
           \E ps \in {stepAfterDraw(op.f.w, call[e].id0, op.pool[d.v + 1])} :
            /\ ps.ok
            /\ \E gp \in {getCollapsePoint(ps.w)} :
               \E p \in PointOutcomes(d.stream, d.mt, gp.uncollapsed) :
               \E solved \in {gp.totalUncertainty = Len(ps.w.m_field)} :
                  /\ wave' = [wave EXCEPT ![e] =
                                [ps.w EXCEPT !.m_uncertaintyCurrent = gp.totalUncertainty,
                                             !.m_mt = p.mt]]
                  /\ stream' = p.stream
                  /\ call' = [call EXCEPT ![e] =
                                IF call[e].oneStep
                                THEN [@ EXCEPT !.pc = "idle",
                                               !.ret = IF solved THEN "true" ELSE "false"]
                                ELSE [@ EXCEPT !.id0 = p.id]]
                  /\ hist' = [hist EXCEPT
                                ![e].obs = @ + 1,
                                ![e].obsInCall = @ + 1,
                                ![e].falseRets =
                                    IF call[e].oneStep /\ ~solved THEN @ + 1 ELSE @,
                                ![e].fell = @ \cup ps.fell
                                            \cup (IF op.f.fallback THEN {call[e].id0} ELSE {}),
                                ![e].emptyObs =
                                    IF empty(op.f.w.m_field[call[e].id0 + 1])
                                    THEN @ \cup {call[e].id0} ELSE @,
                                ![e].lastObs = call[e].id0,
                                ![e].cb = ps.cb,
                                ![e].changed = ps.changed]

\* the while condition is false: collapse returns true
CollapseExit(e) ==
    /\ call[e].pc = "loop"
    /\ wave[e].m_uncertaintyCurrent <= Len(wave[e].m_field)
    /\ call' = [call EXCEPT ![e].pc = "idle", ![e].ret = "true"]
    /\ UNCHANGED <<wave, stream, hist>>

\* an assertion fails, or a vector is read out of bounds, inside collapseStep
CollapseAbort(e) ==
    /\ call[e].pc = "loop"
    /\ wave[e].m_uncertaintyCurrent > Len(wave[e].m_field)
    /\ stepFails(wave[e], call[e].id0)
    /\ call' = [call EXCEPT ![e].pc = "abort"]
    /\ UNCHANGED <<wave, stream, hist>>

(***************************************************************************)
(* Spec: a caller that constructs an engine, initializes it once in        *)
(* either form, and calls collapse again and again, in one of the two      *)
(* modes.                                                                  *)
(***************************************************************************)
\* the values std::random_device is asked for: none unless rndSeed is 0
RdValues(rndSeed) == IF rndSeed = 0 THEN RndSeeds ELSE {0}

\* the patterns of n elements; T has no operation but equality, so the values
\* are named in the order they first appear: "A", then "B", then "C"
Patterns(n) ==
    {p \in [1 .. n -> Colors] :
        /\ p[1] = "A"
        /\ \A k \in 1 .. n : p[k] = "C" => \E m \in 1 .. (k - 1) : p[m] = "B"}

\* the caller of Spec passes a non-zero rndSeed
CallerInitSeed(e) ==
    \E seed \in SeedRecords : \E rd \in RdValues(seed.rndSeed) :
        seed.rndSeed # 0 /\ InitFromSeed(e, seed, rd)

CallerInitPattern(e, maxCells) ==
    \E d \in PatternDims(maxCells) : \E pattern \in Patterns(d[1] * d[2]) :
        \E rndSeed \in RndSeeds \ {0} : \E rd \in RdValues(rndSeed) :
            InitFromPattern(e, pattern, d[1], d[2], d[3], d[4], rndSeed, rd)

Next ==
    \/ hist[1].inits = 0 /\ CallerInitSeed(1) /\ UNCHANGED <<plan, bits>>
    \/ hist[1].inits = 0 /\ CallerInitPattern(1, MaxPatternCells) /\ UNCHANGED <<plan, bits>>
    \/ \E oneStep \in BOOLEAN :
          hist[1].modes \subseteq {oneStep} /\ CollapseCall(1, oneStep) /\ UNCHANGED <<plan, bits>>
    \/ CollapseIterate(1) /\ UNCHANGED <<plan, bits>>
    \/ CollapseExit(1) /\ UNCHANGED <<plan, bits>>

Spec == Init /\ [][Next]_vars

(***************************************************************************)
(* SpecReinit: a caller that calls init up to MaxInits times on the same   *)
(* engine, with any arguments each time, and collapse in between.          *)
(***************************************************************************)
InitReinit == InitWith(MaxReinitCells, FALSE)

CallerInitAbort(e) ==
    \E d \in PatternDims(MaxReinitPatternCells) : \E pattern \in Patterns(d[1] * d[2]) :
        \E rndSeed \in RndSeeds \ {0} :
            InitAbort(e, pattern, d[1], d[2], d[3], d[4], rndSeed)

NextReinit ==
    \/ hist[1].inits < MaxInits /\ CallerInitSeed(1) /\ UNCHANGED <<plan, bits>>
    \/ hist[1].inits < MaxInits /\ CallerInitPattern(1, MaxReinitPatternCells)
          /\ UNCHANGED <<plan, bits>>
    \/ hist[1].inits < MaxInits /\ CallerInitAbort(1) /\ UNCHANGED <<plan, bits>>
    \/ \E oneStep \in BOOLEAN :
          hist[1].modes \subseteq {oneStep} /\ CollapseCall(1, oneStep) /\ UNCHANGED <<plan, bits>>
    \/ CollapseIterate(1) /\ UNCHANGED <<plan, bits>>
    \/ CollapseExit(1) /\ UNCHANGED <<plan, bits>>
    \/ CollapseAbort(1) /\ UNCHANGED <<plan, bits>>

SpecReinit == InitReinit /\ [][NextReinit]_vars

(***************************************************************************)
(* SpecPair: a caller that initializes engine 1 and collapses it, in one   *)
(* mode, until collapse returns true; then initializes an engine again     *)
(* (engine 2 with the same arguments, rndSeed being the retained one;      *)
(* engine 2 with getSeed() of engine 1; or engine 1 itself with its        *)
(* getSeed()) and collapses that one in the same mode.  The generators'    *)
(* output is recorded in stream.                                           *)
(***************************************************************************)
InitPair == InitWith(MaxPairCells, TRUE)

\* Wave::getSeed
getSeed(w) == w.m_seed

PairFirstSeed ==
    /\ plan.phase = "start"
    /\ \E seed \in SeedRecords : \E rd \in RdValues(seed.rndSeed) :
          /\ InitFromSeed(1, seed, rd)
          /\ \E oneStep \in BOOLEAN :
                plan' = [plan EXCEPT !.phase = "first", !.oneStep = oneStep,
                                     !.args = [form |-> "seed", seed |-> seed]]

PairFirstPattern ==
    /\ plan.phase = "start"
    /\ \E d \in PatternDims(MaxPairPatternCells) : \E pattern \in Patterns(d[1] * d[2]) :
       \E rndSeed \in RndSeeds : \E rd \in RdValues(rndSeed) :
          /\ InitFromPattern(1, pattern, d[1], d[2], d[3], d[4], rndSeed, rd)
          /\ \E oneStep \in BOOLEAN :
                plan' = [plan EXCEPT !.phase = "first", !.oneStep = oneStep,
                                     !.args = [form |-> "pattern", pattern |-> pattern,
                                               pw |-> d[1], ph |-> d[2], tw |-> d[3],
                                               th |-> d[4], rndSeed |-> rndSeed]]

\* collapse has returned true since the last init of engine e
Returned(e) ==
    call[e].pc = "idle" /\ call[e].ret = "true" /\ hist[e].modes # {}

\* engine 2 gets the arguments engine 1 got, with the retained rndSeed
PairSecondArgs ==
    /\ plan.phase = "first" /\ Returned(1)
    /\ \E rd \in RdValues(wave[1].m_seed.rndSeed) :
          IF plan.args.form = "seed"
          THEN InitFromSeed(2, [plan.args.seed EXCEPT
                                    !.rndSeed = wave[1].m_seed.rndSeed], rd)
          ELSE InitFromPattern(2, plan.args.pattern, plan.args.pw, plan.args.ph,
                               plan.args.tw, plan.args.th,
                               wave[1].m_seed.rndSeed, rd)
    /\ plan' = [plan EXCEPT !.phase = "second", !.kind = "args", !.eng = 2,
                            !.out = wave[1].m_field]

\* engine 2 gets getSeed() of engine 1
PairSecondSeed ==
    /\ plan.phase = "first" /\ Returned(1)
    /\ \E rd \in RdValues(wave[1].m_seed.rndSeed) :
          InitFromSeed(2, getSeed(wave[1]), rd)
    /\ plan' = [plan EXCEPT !.phase = "second", !.kind = "seed", !.eng = 2,
                            !.out = wave[1].m_field]

\* engine 1 gets its own getSeed()
PairSecondSelf ==
    /\ plan.phase = "first" /\ Returned(1)
    /\ \E rd \in RdValues(wave[1].m_seed.rndSeed) :
          InitFromSeed(1, getSeed(wave[1]), rd)
    /\ plan' = [plan EXCEPT !.phase = "second", !.kind = "self", !.eng = 1,
                            !.out = wave[1].m_field]

NextPair ==
    \/ PairFirstSeed /\ UNCHANGED bits
    \/ PairFirstPattern /\ UNCHANGED bits
    \/ PairSecondArgs /\ UNCHANGED bits
    \/ PairSecondSeed /\ UNCHANGED bits
    \/ PairSecondSelf /\ UNCHANGED bits
    \/ \E e \in Engines :
          plan.phase # "start" /\ plan.eng = e /\ ~Returned(e)
              /\ CollapseCall(e, plan.oneStep) /\ UNCHANGED <<plan, bits>>
    \/ \E e \in Engines : CollapseIterate(e) /\ UNCHANGED <<plan, bits>>
    \/ \E e \in Engines : CollapseExit(e) /\ UNCHANGED <<plan, bits>>

SpecPair == InitPair /\ [][NextPair]_vars

(***************************************************************************)
(* SpecWide: the caller of Spec with a hand-made seed record of more       *)
(* tiles, on a smaller field.                                              *)
(***************************************************************************)
InitWide == InitWith(MaxWideCells, FALSE)

CallerInitWide(e) ==
    \E seed \in SeedRecordsOf(MaxWideSeedTiles) :
        seed.rndSeed # 0 /\ InitFromSeed(e, seed, 0)

NextWide ==
    \/ hist[1].inits = 0 /\ CallerInitWide(1) /\ UNCHANGED <<plan, bits>>
    \/ \E oneStep \in BOOLEAN :
          hist[1].modes \subseteq {oneStep} /\ CollapseCall(1, oneStep) /\ UNCHANGED <<plan, bits>>
    \/ CollapseIterate(1) /\ UNCHANGED <<plan, bits>>
    \/ CollapseExit(1) /\ UNCHANGED <<plan, bits>>

SpecWide == InitWide /\ [][NextWide]_vars

(***************************************************************************)
(* SpecDirected: a caller that gives the engine a hand-made seed record    *)
(* whose rules differ between the vertical and the horizontal directions   *)
(* and are symmetric, as the rules learned from a pattern are, and         *)
(* collapses it with one call in full mode.                                *)
(***************************************************************************)
\* seed records of n tiles: for every tile any set of tiles below it and any
\* set of tiles to its right; tile j is above i when i is below j, and to
\* the left of i when i is to the right of j
DirectedSeedRecords(n) ==
    {[tiles |-> [i \in 1 .. n |-> "A"],
      weights |-> [i \in 1 .. n |-> i],
      neighbors |-> [i \in 1 .. n |->
                        [up |-> BitsetOf(n, {j \in 0 .. (n - 1) : (i - 1) \in dn[j + 1]}),
                         down |-> BitsetOf(n, dn[i]),
                         left |-> BitsetOf(n, {j \in 0 .. (n - 1) : (i - 1) \in rt[j + 1]}),
                         right |-> BitsetOf(n, rt[i])]],
      rndSeed |-> 1] :
        dn \in [1 .. n -> SUBSET (0 .. (n - 1))],
        rt \in [1 .. n -> SUBSET (0 .. (n - 1))]}

InitDirected == InitWith(MaxDirectedCells, FALSE)

CallerInitDirected(e) ==
    \E seed \in DirectedSeedRecords(MaxDirectedSeedTiles) : InitFromSeed(e, seed, 0)

NextDirected ==
    \/ hist[1].inits = 0 /\ CallerInitDirected(1) /\ UNCHANGED <<plan, bits>>
    \/ hist[1].modes = {} /\ CollapseCall(1, FALSE) /\ UNCHANGED <<plan, bits>>
    \/ CollapseIterate(1) /\ UNCHANGED <<plan, bits>>
    \/ CollapseExit(1) /\ UNCHANGED <<plan, bits>>

SpecDirected == InitDirected /\ [][NextDirected]_vars

(***************************************************************************)
(* SpecModes: a caller that initializes engine 1 with a non-zero rndSeed   *)
(* and collapses it with one call in full mode; then initializes engine 2  *)
(* with the same arguments and collapses it with one-step calls until one  *)
(* returns true.  The generators' output is recorded in stream.  plan      *)
(* holds the caller's phase, the arguments of the init (args) and, for     *)
(* each engine, the cells it observed, in order (order).                   *)
(***************************************************************************)
InitModes ==
    \E d \in FieldDims :
        /\ d[1] * d[2] <= MaxModesCells
        /\ wave = [e \in Engines |-> Wave(d[1], d[2])]
        /\ call = [e \in Engines |->
                      [pc |-> "idle", oneStep |-> FALSE, id0 |-> 0, ret |-> "none"]]
        /\ stream = [s \in RndSeeds |-> <<>>]
        /\ hist = [e \in Engines |-> NewHist]
        /\ plan = [phase |-> "start", record |-> TRUE, args |-> NoArgs,
                   order |-> [e \in Engines |-> <<>>]]
        /\ bits = <<>>

ModesFirstSeed ==
    /\ plan.phase = "start"
    /\ \E seed \in SeedRecords : \E rd \in RdValues(seed.rndSeed) :
          /\ seed.rndSeed # 0
          /\ InitFromSeed(1, seed, rd)
          /\ plan' = [plan EXCEPT !.phase = "first",
                                  !.args = [form |-> "seed", seed |-> seed]]

ModesFirstPattern ==
    /\ plan.phase = "start"
    /\ \E d \in PatternDims(MaxModesPatternCells) : \E pattern \in Patterns(d[1] * d[2]) :
       \E rndSeed \in RndSeeds \ {0} : \E rd \in RdValues(rndSeed) :
          /\ InitFromPattern(1, pattern, d[1], d[2], d[3], d[4], rndSeed, rd)
          /\ plan' = [plan EXCEPT !.phase = "first",
                                  !.args = [form |-> "pattern", pattern |-> pattern,
                                            pw |-> d[1], ph |-> d[2], tw |-> d[3],
                                            th |-> d[4], rndSeed |-> rndSeed]]

\* engine 2 gets the arguments engine 1 got
ModesSecond ==
    /\ plan.phase = "first" /\ Returned(1)
    /\ IF plan.args.form = "seed"
       THEN \E rd \in RdValues(plan.args.seed.rndSeed) :
               InitFromSeed(2, plan.args.seed, rd)
       ELSE \E rd \in RdValues(plan.args.rndSeed) :
               InitFromPattern(2, plan.args.pattern, plan.args.pw, plan.args.ph,
                               plan.args.tw, plan.args.th, plan.args.rndSeed, rd)
    /\ plan' = [plan EXCEPT !.phase = "second"]

\* collapseStep of engine e is carried out; the caller notes the cell
ModesIterate(e) ==
    /\ CollapseIterate(e)
    /\ plan' = [plan EXCEPT !.order[e] = Append(@, call[e].id0)]

NextModes ==
    \/ ModesFirstSeed /\ UNCHANGED bits
    \/ ModesFirstPattern /\ UNCHANGED bits
    \/ ModesSecond /\ UNCHANGED bits
    \/ plan.phase = "first" /\ ~Returned(1)
          /\ CollapseCall(1, FALSE) /\ UNCHANGED <<plan, bits>>
    \/ plan.phase = "second" /\ ~Returned(2)
          /\ CollapseCall(2, TRUE) /\ UNCHANGED <<plan, bits>>
    \/ \E e \in Engines : ModesIterate(e) /\ UNCHANGED bits
    \/ \E e \in Engines : CollapseExit(e) /\ UNCHANGED <<plan, bits>>

SpecModes == InitModes /\ [][NextModes]_vars

(***************************************************************************)
(* SpecBitset: the Bitset class on its own.  A caller constructs two       *)
(* objects a and b of one size, each all-on or all-off, and applies set,   *)
(* reset, intersect and add to a, or turns to the other object.  bits      *)
(* holds a and b, the number of operations applied (ops), and whether a    *)
(* has just been constructed all-on or filled by reset( true ) (filled).   *)
(***************************************************************************)
\* the sizes of the objects: around one word and two words
BitsetSizes == {n \in {1, 2, 63, 64, 65, 127, 128} : n <= MaxBitsetSize}

\* the indices the caller passes to set
BitsetIndices(size) == {i \in {0, 1, 62, 63, 64, 127} : i < size}

InitBitset ==
    \E size \in BitsetSizes : \E ona, onb \in BOOLEAN :
    \E a \in BitsetOutcomes(size, ona) : \E b \in BitsetOutcomes(size, onb) :
        /\ bits = [a |-> a, b |-> b, ops |-> 0, filled |-> ona]
        /\ wave = <<>> /\ call = <<>> /\ stream = <<>> /\ hist = <<>> /\ plan = <<>>

\* a.set( index, on )
BitsetSet(index, on) ==
    /\ bits.ops < MaxBitsetOps
    /\ index < bits.a.size
    /\ bits' = [bits EXCEPT !.a = set(@, index, on), !.ops = @ + 1, !.filled = FALSE]
    /\ UNCHANGED <<wave, call, stream, hist, plan>>

\* a.reset( on )
BitsetReset(on) ==
    /\ bits.ops < MaxBitsetOps
    /\ \E r \in resetOutcomes(bits.a, on) :
          bits' = [bits EXCEPT !.a = r, !.ops = @ + 1, !.filled = on]
    /\ UNCHANGED <<wave, call, stream, hist, plan>>

\* a.intersect( b )
BitsetIntersect ==
    /\ bits.ops < MaxBitsetOps
    /\ bits.b.size = bits.a.size
    /\ bits' = [bits EXCEPT !.a = intersect(@, bits.b), !.ops = @ + 1, !.filled = FALSE]
    /\ UNCHANGED <<wave, call, stream, hist, plan>>

\* a.add( b )
BitsetAdd ==
    /\ bits.ops < MaxBitsetOps
    /\ bits.b.size = bits.a.size
    /\ bits' = [bits EXCEPT !.a = add(@, bits.b), !.ops = @ + 1, !.filled = FALSE]
    /\ UNCHANGED <<wave, call, stream, hist, plan>>

\* the caller goes on with the other object
BitsetOther ==
    /\ bits.ops < MaxBitsetOps
    /\ bits' = [bits EXCEPT !.a = bits.b, !.b = bits.a, !.ops = @ + 1, !.filled = FALSE]
    /\ UNCHANGED <<wave, call, stream, hist, plan>>

NextBitset ==
    \/ \E index \in BitsetIndices(bits.a.size) : \E on \in BOOLEAN : BitsetSet(index, on)
    \/ \E on \in BOOLEAN : BitsetReset(on)
    \/ BitsetIntersect
    \/ BitsetAdd
    \/ BitsetOther

SpecBitset == InitBitset /\ [][NextBitset]_vars

(***************************************************************************)
(* What the properties read.                                               *)
(***************************************************************************)
\* the number of cells of the field that hold exactly one candidate
NumSingle(w) == Cardinality({c \in 1 .. Len(w.m_field) : single(w.m_field[c])})

AllSingle(w) == \A c \in 1 .. Len(w.m_field) : single(w.m_field[c])

\* the rule R[i][d][j] of the retained seed
R(w, i, d, j) == get(nbGet(w.m_seed.neighbors[i + 1], d), j)

\* C1 (as claimed): whenever collapse returns true, in full mode or in
\* one-step mode, every cell of the field holds exactly one candidate.
C1_TrueMeansAllSingleton ==
    call[1].ret = "true" => AllSingle(wave[1])

\* C2: collapse terminates.  The observations of a run never outnumber the
\* singleton cells, so there are at most W*H of them; every pass of the loop
\* can be carried out, whatever is drawn (no assertion fails, no vector is
\* read out of bounds, the pool is not empty); every one-step call that
\* returned false made an observation.
C2_Terminates ==
    /\ hist[1].obs <= NumSingle(wave[1])
    /\ NumSingle(wave[1]) <= wave[1].m_fieldW * wave[1].m_fieldH
    /\ hist[1].falseRets <= hist[1].obs
    /\ call[1].pc # "abort"
    /\ (call[1].pc = "loop" /\ wave[1].m_uncertaintyCurrent > Len(wave[1].m_field)) =>
          ~stepFails(wave[1], call[1].id0)

\* a full-mode run on at least two cells that observed every cell, met a
\* contradiction on the way, and returned true
C2_Witness ==
    /\ call[1].ret = "true" /\ ~call[1].oneStep
    /\ Len(wave[1].m_field) >= 2
    /\ hist[1].obs = Len(wave[1].m_field)
    /\ hist[1].fell # {}

\* the cell in direction dir of cell c, or -1 outside the field
CellAt(w, c, dir) ==
    LET x == c % w.m_fieldW
        y == c \div w.m_fieldW
    IN  CASE dir = Up /\ y > 0 -> fieldIndex(w, x, y - 1)
          [] dir = Down /\ y < w.m_fieldH - 1 -> fieldIndex(w, x, y + 1)
          [] dir = Left /\ x > 0 -> fieldIndex(w, x - 1, y)
          [] dir = Right /\ x < w.m_fieldW - 1 -> fieldIndex(w, x + 1, y)
          [] OTHER -> -1

\* cells p and p + d both hold one tile, and the rule R[i][d][j] fails
Clash(w, p, d) ==
    LET q == CellAt(w, p, d)
    IN  /\ q >= 0
        /\ single(w.m_field[p + 1]) /\ single(w.m_field[q + 1])
        /\ ~R(w, first(w.m_field[p + 1]), d, first(w.m_field[q + 1]))

\* the cells where the filter's fallback or the observer's empty-cell branch
\* fired during the run
FellAt(e) == hist[e].fell \cup hist[e].emptyObs

\* R[i][d][j] <=> R[j][rev(d)][i] for the retained seed
SymmetricRules(w) ==
    \A i, j \in 0 .. (Len(w.m_seed.tiles) - 1) : \A d \in Dirs :
        R(w, i, d, j) <=> R(w, j, revDir(d), i)

\* C3 (as claimed): in the field left by collapse, adjacent cells p and p + d
\* holding tiles i and j satisfy R[i][d][j] unless a fallback fired at p or
\* at p + d; for every N >= 1.
C3_AdjacencyUnlessFallback ==
    call[1].ret = "true" =>
        \A p \in 0 .. (Len(wave[1].m_field) - 1) : \A d \in Dirs :
            Clash(wave[1], p, d) =>
                (p \in FellAt(1) \/ CellAt(wave[1], p, d) \in FellAt(1))

\* C3 (amended): the same, for N >= 2 tiles and rules that are symmetric
\* across the reversed direction.
C3_AdjacencyTwoTiles ==
    (call[1].ret = "true" /\ Len(wave[1].m_seed.tiles) >= 2
                          /\ SymmetricRules(wave[1])) =>
        \A p \in 0 .. (Len(wave[1].m_field) - 1) : \A d \in Dirs :
            Clash(wave[1], p, d) =>
                (p \in FellAt(1) \/ CellAt(wave[1], p, d) \in FellAt(1))

\* a run of at least two tiles and two cells under symmetric rules that
\* forbid some pair: no fallback fired, every cell holds one tile
C3_Witness ==
    /\ call[1].ret = "true"
    /\ Len(wave[1].m_seed.tiles) >= 2 /\ SymmetricRules(wave[1])
    /\ Len(wave[1].m_field) >= 2 /\ AllSingle(wave[1])
    /\ hist[1].obs >= 1 /\ FellAt(1) = {}
    /\ \E i, j \in 0 .. (Len(wave[1].m_seed.tiles) - 1) : \E d \in Dirs :
          ~R(wave[1], i, d, j)

\* C5: after init from a pattern, bit j of R[i][d] is set if and only if
\* bit i of R[j][rev(d)] is set, for all tiles i, j and directions d, where
\* rev(Up) = Down and rev(Left) = Right.
C5_RulesSymmetric ==
    hist[1].args.form = "pattern" =>
        /\ SymmetricRules(wave[1])
        /\ revDir(Up) = Down /\ revDir(Down) = Up
        /\ revDir(Left) = Right /\ revDir(Right) = Left

\* a pattern was learned in which some tile accepts another in a direction
\* and not in the reversed one
C5_Witness ==
    /\ hist[1].args.form = "pattern"
    /\ \E i, j \in 0 .. (Len(wave[1].m_seed.tiles) - 1) : \E d \in Dirs :
          i # j /\ R(wave[1], i, d, j) /\ ~R(wave[1], i, revDir(d), j)

\* the origins of the windows: 0 <= x <= pw - tw, 0 <= y <= ph - th
WindowOrigins(a) == (0 .. (a.pw - a.tw)) \X (0 .. (a.ph - a.th))

\* the tw x th block of the pattern at origin o = <<x, y>>, row by row
Block(a, o) ==
    [k \in 1 .. (a.tw * a.th) |->
        a.pattern[(o[2] + ((k - 1) \div a.tw)) * a.pw + o[1] + ((k - 1) % a.tw) + 1]]

\* origin o is scanned before origin u: x in the outer loop, y in the inner
ScannedBefore(o, u) == o[1] < u[1] \/ (o[1] = u[1] /\ o[2] < u[2])

\* the first origin, in scanning order, whose block is b
FirstOrigin(a, b) ==
    CHOOSE o \in WindowOrigins(a) :
        /\ Block(a, o) = b
        /\ \A u \in WindowOrigins(a) : Block(a, u) = b => (u = o \/ ScannedBefore(o, u))

RECURSIVE SumSeq(_, _)
SumSeq(seq, i) == IF i > Len(seq) THEN 0 ELSE seq[i] + SumSeq(seq, i + 1)

\* C6: after init from a pattern the ids stand for the blocks of all the
\* window origins (no wrap), one id for equal blocks, in the order of first
\* occurrence with x scanned in the outer loop and y in the inner loop; the
\* tile value of an id is the top-left element of its block; its weight is
\* the number of origins with that block, so every weight is at least 1
\* and the weights sum to (pw - tw + 1) * (ph - th + 1).
C6_Extraction ==
    hist[1].args.form = "pattern" =>
        LET a == hist[1].args
            seed == wave[1].m_seed
            N == Len(a.blocks)
        IN  /\ Len(seed.tiles) = N /\ Len(seed.weights) = N
            /\ {a.blocks[i] : i \in 1 .. N} = {Block(a, o) : o \in WindowOrigins(a)}
            /\ \A i, j \in 1 .. N : i < j =>
                  /\ a.blocks[i] # a.blocks[j]
                  /\ ScannedBefore(FirstOrigin(a, a.blocks[i]), FirstOrigin(a, a.blocks[j]))
            /\ \A i \in 1 .. N :
                  /\ seed.tiles[i] = a.blocks[i][1]
                  /\ seed.weights[i] =
                        Cardinality({o \in WindowOrigins(a) : Block(a, o) = a.blocks[i]})
                  /\ seed.weights[i] >= 1
            /\ SumSeq(seed.weights, 1) = (a.pw - a.tw + 1) * (a.ph - a.th + 1)

\* a pattern with windows in both directions and three different blocks, the
\* second of which repeats, and whose ids depend on the scanning order
C6_Witness ==
    /\ hist[1].args.form = "pattern"
    /\ hist[1].args.pw > hist[1].args.tw /\ hist[1].args.ph > hist[1].args.th
    /\ Len(wave[1].m_seed.tiles) = 3
    /\ wave[1].m_seed.weights[2] = 2
    /\ wave[1].m_seed.tiles = <<"A", "C", "B">>

\* C10 (as claimed): a one-step call on a field that is not solved makes
\* exactly one observation; it returns true exactly when every cell is
\* singleton; on a solved field it makes no observation, changes no cell and
\* returns true.
C10_OneStepCall ==
    (call[1].pc = "idle" /\ call[1].oneStep /\ call[1].ret # "none") =>
        LET entry == hist[1].entryField
            solvedAtEntry == \A c \in 1 .. Len(entry) : single(entry[c])
        IN  /\ ~solvedAtEntry => hist[1].obsInCall = 1
            /\ solvedAtEntry =>
                  /\ hist[1].obsInCall = 0
                  /\ wave[1].m_field = entry
                  /\ call[1].ret = "true"
            /\ call[1].ret = "true" <=> AllSingle(wave[1])

\* the rndSeed argument of the first init of SpecPair
GivenRndSeed == IF plan.args.form = "seed" THEN plan.args.seed.rndSeed
                ELSE plan.args.rndSeed

\* C4: two engines of the same dimensions initialized with the same pattern,
\* pattern and tile dimensions and the same non-zero rndSeed, both collapsed
\* in full mode, end with identical fields, having drawn equally often.
C4_Deterministic ==
    (/\ plan.phase = "second" /\ plan.kind = "args"
     /\ plan.args.form = "pattern" /\ GivenRndSeed # 0 /\ ~plan.oneStep
     /\ Returned(2)) =>
        /\ wave[2].m_field = wave[1].m_field
        /\ wave[2].m_mt = wave[1].m_mt

\* two engines given the same pattern of two tiles, collapsed in full mode
\* on two cells or more, each making two or more observations
C4_Witness ==
    /\ plan.phase = "second" /\ plan.kind = "args"
    /\ plan.args.form = "pattern" /\ GivenRndSeed # 0 /\ ~plan.oneStep
    /\ Returned(2)
    /\ Len(wave[2].m_seed.tiles) >= 2
    /\ hist[1].obs >= 2 /\ hist[2].obs >= 2

\* C7 (as claimed): every call to init leaves the field as W*H candidate
\* sets of length N with all N bits set, also on an engine whose field was
\* initialized and collapsed before, and the four scratch sets the filter
\* uses have length N.
C7_InitResetsField ==
    (call[1].pc = "idle" /\ hist[1].args.form # "none") =>
        LET w == wave[1]
            N == Len(w.m_seed.tiles)
        IN  /\ Len(w.m_field) = w.m_fieldW * w.m_fieldH
            /\ \A c \in 1 .. Len(w.m_field) :
                  w.m_field[c].size = N /\ Bits(w.m_field[c]) = 0 .. (N - 1)
            /\ Len(w.m_possibleNeighbors) >= 4
            /\ \A d \in 1 .. 4 : w.m_possibleNeighbors[d].size = N

\* C8 (as claimed): when init is given rndSeed = 0 the retained rndSeed is
\* non-zero and is the value the generator was seeded with, whatever rd()
\* returned; an engine initialized with the same arguments and the retained
\* value ends with the same field.
C8_ZeroSeedReplaced ==
    (plan.phase # "start" /\ GivenRndSeed = 0) =>
        /\ wave[1].m_seed.rndSeed # 0
        /\ wave[1].m_mt.seeded /\ wave[1].m_mt.seed = wave[1].m_seed.rndSeed
        /\ (plan.phase = "second" /\ plan.kind = "args" /\ Returned(2)) =>
              wave[2].m_field = plan.out

\* C9 (as claimed): after collapse has returned true, init with getSeed()
\* on the same engine or on a fresh engine of the same dimensions, followed
\* by collapse in the same mode, ends with the field of the first run.
C9_SeedRoundTrip ==
    (plan.phase = "second" /\ plan.kind \in {"seed", "self"} /\ Returned(plan.eng)) =>
        wave[plan.eng].m_field = plan.out

\* the sum over all cells of their candidate counts
RECURSIVE TotalFrom(_, _)
TotalFrom(field, c) ==
    IF c > Len(field) THEN 0 ELSE Cardinality(Bits(field[c])) + TotalFrom(field, c + 1)

Total(w) == TotalFrom(w.m_field, 1)

\* C11 (as claimed): at every point after init where no collapse call is
\* running (before the first call, between one-step calls, after collapse
\* has returned), if getUncertainty() returns 1 then every cell holds
\* exactly one candidate.
C11_OneMeansSolved ==
    (hist[1].inits >= 1 /\ call[1].pc = "idle") =>
        (FloatEq(getUncertainty(wave[1]), 1, 1) => AllSingle(wave[1]))

\* a collapse call of engine 1 has returned and no other is running
AfterCall == call[1].pc = "idle" /\ call[1].ret # "none"

\* C12 (as claimed): the value uncertainty() reports after a collapse call is
\* W*H / sum, sum being the total candidate count measured by the last scan;
\* it never exceeds 1.
C12_ProgressQuotient ==
    AfterCall =>
        LET q == getUncertainty(wave[1])
            WH == wave[1].m_fieldW * wave[1].m_fieldH
        IN  /\ Total(wave[1]) > 0
            /\ FloatEq(q, WH, Total(wave[1]))
            /\ FloatLeq(q, 1, 1)

\* C12 (amended): the value reported after a collapse call is sum / (W*H),
\* sum being the total candidate count of the field as the last scan
\* measured it; it is 1 exactly when sum = W*H, and at most 1 whenever the
\* call returned true.
C12_UncertaintyQuotient ==
    AfterCall =>
        LET q == getUncertainty(wave[1])
            WH == wave[1].m_fieldW * wave[1].m_fieldH
        IN  /\ FloatEq(q, Total(wave[1]), WH)
            /\ FloatEq(q, 1, 1) <=> Total(wave[1]) = WH
            /\ call[1].ret = "true" => FloatLeq(q, 1, 1)

\* a one-step call on three cells or more has observed and returned false,
\* no cell is empty, and the value reported is greater than 1 and not a
\* whole number
C12_Witness ==
    /\ AfterCall /\ call[1].ret = "false"
    /\ hist[1].obsInCall = 1
    /\ Len(wave[1].m_field) >= 3
    /\ \A c \in 1 .. Len(wave[1].m_field) : ~empty(wave[1].m_field[c])
    /\ ~FloatLeq(getUncertainty(wave[1]), 1, 1)
    /\ Total(wave[1]) % Len(wave[1].m_field) # 0

\* the number of calls of the callback for cell c in the last step
Callbacks(c) == Cardinality({k \in 1 .. Len(hist[1].cb) : hist[1].cb[k].id = c})

\* C13 (as claimed): in one observation step the callback is invoked once
\* for the observed cell and, during propagation, once for each cell whose
\* candidate set changed and for no cell whose candidate set did not
\* change; no cell receives more than one callback in a step.
C13_CallbackPerChangedCell ==
    hist[1].cb # <<>> =>
        /\ Callbacks(hist[1].lastObs) = 1
        /\ \A c \in hist[1].changed : Callbacks(c) = 1
        /\ \A c \in 0 .. (Len(wave[1].m_field) - 1) :
              /\ Callbacks(c) <= 1
              /\ (Callbacks(c) = 1 /\ c # hist[1].lastObs) => c \in hist[1].changed

\* C14 (as claimed): every callback invocation made by collapse reports a
\* cell that has just been left with exactly one possible tile.
C14_CallbackOnSingleton ==
    \A k \in 1 .. Len(hist[1].cb) : hist[1].cb[k].single

\* C15: when the window equals the full pattern (tw = pw, th = ph)
\* extraction yields exactly one tile of weight 1, the pattern itself, whose
\* value is the pattern's first element; collapse on a field of any size
\* returns true with every cell holding that single tile, performing no
\* observation and drawing no random number.
C15_FullWindow ==
    hist[1].fullWindow > 0 =>
        /\ Len(wave[1].m_seed.tiles) = 1 /\ wave[1].m_seed.weights = <<1>>
        /\ hist[1].args.form = "pattern" =>
              /\ hist[1].args.blocks = <<hist[1].args.pattern>>
              /\ wave[1].m_seed.tiles = <<hist[1].args.pattern[1]>>
        /\ \A c \in 1 .. Len(wave[1].m_field) :
              wave[1].m_field[c].size = 1 /\ Bits(wave[1].m_field[c]) = {0}
        /\ Len(wave[1].m_field) = wave[1].m_fieldW * wave[1].m_fieldH
        /\ hist[1].obs = 0 /\ wave[1].m_mt.pos = 0
        /\ call[1].pc # "abort"
        /\ call[1].pc = "loop" => wave[1].m_uncertaintyCurrent <= Len(wave[1].m_field)
        /\ AfterCall => call[1].ret = "true"

\* collapse has returned true on a field of four cells after an init whose
\* window was a whole pattern of four elements
C15_Witness ==
    /\ hist[1].fullWindow = 4
    /\ AfterCall /\ call[1].ret = "true"
    /\ Len(wave[1].m_field) = 4

\* C16 (as claimed): in the candidate filter, when the neighbor of a cell in
\* direction d lies outside the field, allowed[d] is the full tile set, for
\* every rule set.
C16_OpenBoundaryAllowsAll ==
    hist[1].inits >= 1 =>
        \A id \in 0 .. (Len(wave[1].m_field) - 1) : \A d \in Dirs :
            CellAt(wave[1], id, d) = -1 =>
                Bits(allowed(wave[1], id, d)) = 0 .. (Len(wave[1].m_seed.tiles) - 1)

\* all the tile ids of engine w
AllTiles(w) == 0 .. (Len(w.m_seed.tiles) - 1)

\* the tiles possible in the neighbor of cell id in direction d; outside the
\* field the neighbor is the AllTiles sentinel
NeighborTiles(w, id, d) ==
    IF CellAt(w, id, d) = -1 THEN AllTiles(w)
    ELSE Bits(w.m_field[CellAt(w, id, d) + 1])

\* allowed[d] for cell id: the union of R[j][rev(d)] over the tiles j
\* possible in the neighbor in direction d
AllowedSet(w, id, d) ==
    {i \in AllTiles(w) : \E j \in NeighborTiles(w, id, d) : R(w, j, revDir(d), i)}

\* S for cell id: the prior set, or all tiles if the prior set is empty
PriorSet(w, id) ==
    IF Bits(w.m_field[id + 1]) = {} THEN AllTiles(w) ELSE Bits(w.m_field[id + 1])

\* the four allowed sets of cell id, entry d + 1 for direction d
AllowedSets(w, id) == SubSeq([d \in 1 .. 4 |-> AllowedSet(w, id, d - 1)], 1, 4)

\* C17: the candidate filter applied to cell c sets it to the intersection of
\* S with the four allowed sets, S being the prior set (all tiles if that
\* was empty) and allowed[d] the union of R[j][rev(d)] over the tiles j
\* possible in the neighbor in direction d (every tile, for a neighbor
\* outside the field); if the intersection is empty the cell becomes the
\* union of the four allowed sets.  So a non-empty cell without the fallback
\* ends as a subset of its prior set, with the fallback the count is at
\* most N, and the cell is left empty only if all four allowed sets are
\* empty.  No other cell changes.  Stated for every field that collapse has
\* scanned at the head of its loop, and every cell of it.
C17_FilterResult ==
    call[1].pc = "loop" =>
        \A id \in 0 .. (Len(wave[1].m_field) - 1) :
        \A f \in {filterCandidates(wave[1], id)} :
        \A result \in {Bits(f.w.m_field[id + 1])} :
        \A al \in {AllowedSets(wave[1], id)} :
        \A inter \in {{i \in PriorSet(wave[1], id) : \A d \in 1 .. 4 : i \in al[d]}} :
        \A prior \in {Bits(wave[1].m_field[id + 1])} :
            /\ f.ok
            /\ f.w.m_field[id + 1].size = Len(wave[1].m_seed.tiles)
            /\ f.fallback <=> inter = {}
            /\ result = IF inter # {} THEN inter ELSE UNION {al[d] : d \in 1 .. 4}
            /\ (prior # {} /\ ~f.fallback) => result \subseteq prior
            /\ Cardinality(result) <= Len(wave[1].m_seed.tiles)
            /\ count(f.w.m_field[id + 1]) = Cardinality(result)
            /\ result = {} => \A d \in 1 .. 4 : al[d] = {}
            /\ \A c \in 1 .. Len(wave[1].m_field) :
                  c # id + 1 => f.w.m_field[c] = wave[1].m_field[c]

\* an observation step is about to run on a field where the filter would
\* take the fallback in one cell and end with a non-empty set, and strictly
\* narrow another cell without the fallback
C17_Witness ==
    /\ call[1].pc = "loop" /\ wave[1].m_uncertaintyCurrent > Len(wave[1].m_field)
    /\ \E id \in 0 .. (Len(wave[1].m_field) - 1) :
          /\ filterCandidates(wave[1], id).fallback
          /\ ~empty(wave[1].m_field[id + 1])
          /\ ~empty(filterCandidates(wave[1], id).w.m_field[id + 1])
    /\ \E id \in 0 .. (Len(wave[1].m_field) - 1) :
          /\ ~filterCandidates(wave[1], id).fallback
          /\ ~empty(wave[1].m_field[id + 1])
          /\ filterCandidates(wave[1], id).w.m_field[id + 1] # wave[1].m_field[id + 1]

\* C18 (as claimed): each observation step (one observation plus its
\* propagation) strictly decreases the total candidate count summed over
\* all cells.
C18_StepDecreasesTotal ==
    [][hist'[1].obs = hist[1].obs + 1 => Total(wave'[1]) < Total(wave[1])]_vars

\* C18 (amended): each observation step strictly increases the number of
\* singleton cells and leaves every singleton cell as it was; it strictly
\* decreases the total candidate count as long as no contradiction fallback
\* has fired in the run.
C18_StepAddsSingleton ==
    [][hist'[1].obs = hist[1].obs + 1 =>
          /\ NumSingle(wave'[1]) > NumSingle(wave[1])
          /\ \A c \in 1 .. Len(wave[1].m_field) :
                single(wave[1].m_field[c]) => wave'[1].m_field[c] = wave[1].m_field[c]
          /\ (hist'[1].fell \cup hist'[1].emptyObs = {}) =>
                Total(wave'[1]) < Total(wave[1])]_vars

\* two observation steps have been made on three cells, a fallback fired in
\* a cell that now holds all three tiles, and a cell is still to be observed
C18_Witness ==
    /\ hist[1].obs = 2 /\ Len(wave[1].m_field) = 3
    /\ call[1].pc = "loop" /\ wave[1].m_uncertaintyCurrent > Len(wave[1].m_field)
    /\ \E c \in hist[1].fell : Bits(wave[1].m_field[c + 1]) = {0, 1, 2}

\* C19 (as claimed): in every state reachable after init the sum over all
\* cells of their candidate counts lies between W*H and W*H*N inclusive and
\* equals W*H exactly when every cell has exactly one candidate; no cell is
\* left empty at the end of an observation step.
C19_TotalBounds ==
    hist[1].inits >= 1 =>
        LET WH == wave[1].m_fieldW * wave[1].m_fieldH
        IN  /\ WH <= Total(wave[1])
            /\ Total(wave[1]) <= WH * Len(wave[1].m_seed.tiles)
            /\ Total(wave[1]) = WH <=> AllSingle(wave[1])
            /\ hist[1].obs >= 1 =>
                  \A c \in 1 .. Len(wave[1].m_field) : ~empty(wave[1].m_field[c])

\* the cells of a field that hold more than one candidate
Uncollapsed(field) == {c \in 0 .. (Len(field) - 1) : Cardinality(Bits(field[c + 1])) > 1}

\* those of them whose count is the least
MinCells(field) ==
    {c \in Uncollapsed(field) :
        \A u \in Uncollapsed(field) :
            Cardinality(Bits(field[c + 1])) <= Cardinality(Bits(field[u + 1]))}

\* C20: the cell chosen for observation has a candidate count m > 1 and no
\* cell of the field has a count strictly between 1 and m; every cell whose
\* count equals m can be chosen; when no cell has count > 1 no observation
\* is made.
C20_MinEntropyChoice ==
    /\ (call[1].pc = "loop" /\ wave[1].m_uncertaintyCurrent > Len(wave[1].m_field)) =>
          call[1].id0 \in MinCells(wave[1].m_field)
    /\ hist[1].obsInCall >= 1 /\ call[1].oneStep =>
          hist[1].lastObs \in MinCells(hist[1].entryField)
    /\ (hist[1].inits >= 1 /\ MinCells(wave[1].m_field) # {}) =>
          {p.id : p \in PointOutcomes(stream, wave[1].m_mt,
                                      getCollapsePoint(wave[1]).uncollapsed)}
              = MinCells(wave[1].m_field)
    /\ (call[1].pc = "loop" /\ Uncollapsed(wave[1].m_field) = {}) =>
          wave[1].m_uncertaintyCurrent <= Len(wave[1].m_field)
    /\ (call[1].pc # "loop" /\ Uncollapsed(hist[1].entryField) = {}) =>
          hist[1].obsInCall = 0

\* the cell chosen for the next observation is one of two or more cells of
\* the least count, not the first of them, while another cell holds more
\* candidates than these and another is already singleton
C20_Witness ==
    /\ call[1].pc = "loop" /\ wave[1].m_uncertaintyCurrent > Len(wave[1].m_field)
    /\ Cardinality(MinCells(wave[1].m_field)) >= 2
    /\ call[1].id0 # Min(MinCells(wave[1].m_field))
    /\ Uncollapsed(wave[1].m_field) # MinCells(wave[1].m_field)
    /\ NumSingle(wave[1]) >= 1

\* how often tile i occurs in the pool
Occurrences(pool, i) == Cardinality({r \in 1 .. Len(pool) : pool[r] = i})

\* C21: observing a cell first applies the candidate filter to it, then
\* leaves it as a singleton {t}: if the filtered set is non-empty, t is a
\* member of it and the selection pool holds each member i exactly W[i]
\* times and nothing else; if the filtered set is empty, the pool holds
\* every tile i exactly W[i] times.  The pool is not empty.
C21_ObserveCell ==
    [][hist'[1].obs = hist[1].obs + 1 =>
          \A id \in {call[1].id0} :
          \A f \in {filterCandidates(wave[1], id)} :
          \A filtered \in {Bits(f.w.m_field[id + 1])} :
          \A pool \in {observePrep(wave[1], id).pool} :
          \A members \in {IF filtered = {} THEN AllTiles(wave[1]) ELSE filtered} :
              /\ f.ok
              /\ pool # <<>>
              /\ \A i \in AllTiles(wave[1]) :
                    Occurrences(pool, i) =
                        IF i \in members THEN wave[1].m_seed.weights[i + 1] ELSE 0
              /\ \A r \in 1 .. Len(pool) : pool[r] \in AllTiles(wave[1])
              /\ \E t \in members : Bits(wave'[1].m_field[id + 1]) = {t}
              /\ single(wave'[1].m_field[id + 1])
              /\ hist'[1].lastObs = id]_vars

\* a one-step call has just observed a cell, after an earlier observation:
\* the cell held two candidates of different weights and now holds the
\* heavier of them
C21_Witness ==
    /\ hist[1].obs >= 2 /\ hist[1].obsInCall = 1 /\ call[1].oneStep
    /\ \E i, j \in AllTiles(wave[1]) :
          /\ wave[1].m_seed.weights[i + 1] > wave[1].m_seed.weights[j + 1]
          /\ Bits(hist[1].entryField[hist[1].lastObs + 1]) = {i, j}
          /\ Bits(wave[1].m_field[hist[1].lastObs + 1]) = {i}


\* the position of the first occurrence of x in the sequence q, 0 if none
FirstIndex(q, x) ==
    IF \E k \in 1 .. Len(q) : q[k] = x
    THEN CHOOSE k \in 1 .. Len(q) : q[k] = x /\ \A m \in 1 .. k - 1 : q[m] # x
    ELSE 0

\* the steps collapseStep can take from a state at the head of the loop: for
\* every tile the draw can pick, the field after collapseCell, whether the
\* filter of collapseCell fell back, and the record of the propagation
StepOutcomes(w, id) ==
    LET op == observePrep(w, id)
    IN  IF ~op.ok THEN {}
        ELSE {[start |-> placeTile(op.f.w, id, op.pool[r]).m_field,
               fallback |-> op.f.fallback,
               ps |-> stepAfterDraw(op.f.w, id, op.pool[r])] :
                 r \in 1 .. Len(op.pool)}

\* C22: whatever tile an observation draws, the propagation that follows
\* ends with an empty queue and without a failure, after at most 4*W*H
\* pushes; the cells leave the queue in the order in which they were pushed
\* and every pushed cell leaves it; no cell is passed through the filter
\* twice; the cells are filtered in the order in which they first left the
\* queue; and no cell that was a singleton when the propagation started, the
\* observed cell included, is filtered.
C22_PropagationQueue ==
    (call[1].pc = "loop" /\ wave[1].m_uncertaintyCurrent > Len(wave[1].m_field)) =>
        \A o \in StepOutcomes(wave[1], call[1].id0) :
            /\ o.ps.ok
            /\ o.ps.collapseFront = <<>>
            /\ o.ps.popped = o.ps.pushed
            /\ Len(o.ps.pushed) <= 4 * Len(wave[1].m_field)
            /\ \A a, b \in 1 .. Len(o.ps.filtered) :
                  a < b =>
                    /\ o.ps.filtered[a] # o.ps.filtered[b]
                    /\ FirstIndex(o.ps.popped, o.ps.filtered[a])
                         < FirstIndex(o.ps.popped, o.ps.filtered[b])
            /\ \A a \in 1 .. Len(o.ps.filtered) :
                  /\ FirstIndex(o.ps.popped, o.ps.filtered[a]) > 0
                  /\ o.ps.filtered[a] # call[1].id0
                  /\ ~single(o.start[o.ps.filtered[a] + 1])

\* an observation whose propagation filters three cells, pushes one of them
\* again after it was filtered, and holds two cells in the queue at once
C22_Witness ==
    /\ call[1].pc = "loop" /\ wave[1].m_uncertaintyCurrent > Len(wave[1].m_field)
    /\ \E o \in StepOutcomes(wave[1], call[1].id0) :
          /\ o.ps.ok
          /\ Len(o.ps.filtered) >= 3
          /\ Len(o.ps.popped) > Len(o.ps.filtered)
          /\ \E k \in 1 .. Len(o.ps.popped) - 1 :
                FirstIndex(o.ps.filtered, o.ps.popped[k]) > 0
                /\ FirstIndex(o.ps.filtered, o.ps.popped[k + 1]) > 0
                /\ o.ps.popped[k] # o.ps.popped[k + 1]


\* where a block lies when it is slid by one row or one column in direction d
SlideX(d) == IF d = Left THEN -1 ELSE IF d = Right THEN 1 ELSE 0
SlideY(d) == IF d = Up THEN -1 ELSE IF d = Down THEN 1 ELSE 0

\* the positions <<x, y>> of a tw x th block at the origin that a second
\* block, slid by one in direction d, also covers
OverlapRegion(tw, th, d) ==
    {p \in (0 .. tw - 1) \X (0 .. th - 1) :
        /\ p[1] - SlideX(d) \in 0 .. tw - 1
        /\ p[2] - SlideY(d) \in 0 .. th - 1}

\* block bj, slid by one in direction d, agrees with block bi wherever both
\* lie
OverlapEqual(bi, bj, d, tw, th) ==
    \A p \in OverlapRegion(tw, th, d) :
        bi[p[2] * tw + p[1] + 1] =
            bj[(p[2] - SlideY(d)) * tw + (p[1] - SlideX(d)) + 1]

\* C23: after init from a pattern, bit j of R[i][d] is set exactly when
\* block j, slid by one row (Up, Down) or one column (Left, Right) in
\* direction d, is element-wise equal to block i on the region where both
\* lie, a region of tw*(th-1) elements for Up and Down and of (tw-1)*th
\* elements for Left and Right; with tw = th = 1 every tile is allowed next
\* to every tile, itself included, in all four directions.
C23_RulesFromOverlap ==
    hist[1].args.form = "pattern" =>
        \A a \in {hist[1].args} : \A N \in {Len(hist[1].args.blocks)} :
            /\ Len(wave[1].m_seed.neighbors) = N
            /\ \A d \in Dirs :
                  Cardinality(OverlapRegion(a.tw, a.th, d)) =
                      IF d \in {Up, Down} THEN a.tw * (a.th - 1)
                                          ELSE (a.tw - 1) * a.th
            /\ \A i, j \in 0 .. N - 1 : \A d \in Dirs :
                  R(wave[1], i, d, j) <=>
                      OverlapEqual(a.blocks[i + 1], a.blocks[j + 1], d, a.tw, a.th)
            /\ (a.tw = 1 /\ a.th = 1) =>
                  \A i, j \in 0 .. N - 1 : \A d \in Dirs : R(wave[1], i, d, j)

\* a pattern learned with windows of more than one element, in which a tile
\* accepts another tile in one direction and refuses it in the reversed one,
\* and some tile refuses itself
C23_Witness ==
    /\ hist[1].args.form = "pattern"
    /\ hist[1].args.tw * hist[1].args.th >= 2
    /\ \E i, j \in 0 .. (Len(hist[1].args.blocks) - 1) : \E d \in Dirs :
          /\ i < j
          /\ R(wave[1], i, d, j) /\ ~R(wave[1], i, revDir(d), j)
          /\ ~R(wave[1], j, d, j)


\* the positions of the one bits of the words of b, tail bits included
StorageBits(b) ==
    UNION {{(i - 1) * Stride + k : k \in b.data[i]} : i \in 1 .. Len(b.data)}

\* count, single, empty and first of b agree with the set of its one bits
AccessorsAgree(b) ==
    /\ count(b) = Cardinality(Bits(b))
    /\ count(b) <= b.size
    /\ single(b) <=> count(b) = 1
    /\ empty(b) <=> count(b) = 0
    /\ first(b) = IF Bits(b) = {} THEN b.size ELSE Min(Bits(b))

\* C24 (as claimed): a Bitset of size n >= 1 that was constructed all-on or
\* filled by reset( true ) has exactly n bits set: count() = n, first() = 0,
\* bit i is set for every i < n, and no bit of the storage at a position
\* >= n is set, for every n, the multiples of 64 included; after any
\* sequence of set, reset, intersect and add, count() <= n, single() holds
\* iff count() = 1, empty() holds iff count() = 0, and first() is the lowest
\* set index, or n when no bit is set.
C24_BitsetAllOn ==
    /\ bits.filled =>
          /\ count(bits.a) = bits.a.size
          /\ first(bits.a) = 0
          /\ \A i \in 0 .. bits.a.size - 1 : get(bits.a, i)
    /\ StorageBits(bits.a) \subseteq 0 .. bits.a.size - 1
    /\ AccessorsAgree(bits.a)


\* C25: from the init on, no step of the engine (the entry of a collapse
\* call, an observation with its filter applications, fallbacks and
\* propagation, the return of a call) changes a cell whose candidate set is
\* a singleton: it holds the same tile ever after.
C25_SingletonKept ==
    [][(hist[1].inits >= 1 /\ hist'[1].inits = hist[1].inits) =>
          \A c \in 1 .. Len(wave[1].m_field) :
              single(wave[1].m_field[c]) =>
                  /\ wave'[1].m_field[c] = wave[1].m_field[c]
                  /\ Bits(wave'[1].m_field[c]) = Bits(wave[1].m_field[c])]_vars

\* a one-step call that began with a singleton cell has observed another
\* cell; the propagation filtered at least two cells and changed one, and a
\* fallback has fired in the run; the singleton cell is as it was
C25_Witness ==
    /\ call[1].oneStep /\ hist[1].obsInCall = 1 /\ hist[1].obs >= 2
    /\ Len(hist[1].cb) >= 3 /\ hist[1].changed # {}
    /\ hist[1].fell # {}
    /\ \E c \in 1 .. Len(wave[1].m_field) :
          /\ c - 1 # hist[1].lastObs
          /\ single(hist[1].entryField[c])
          /\ wave[1].m_field[c] = hist[1].entryField[c]


\* both runs of SpecModes have ended
ModesDone == plan.phase = "second" /\ Returned(2)

\* C26 (as claimed): one-step calls repeated until one returns true observe
\* the same cells in the same order and end with the same field as one call
\* in full mode on an engine initialized with the same arguments and the
\* same non-zero rndSeed, and both have drawn equally often from the
\* generator.
C26_ModesAgree ==
    ModesDone =>
        /\ plan.order[2] = plan.order[1]
        /\ wave[2].m_field = wave[1].m_field
        /\ wave[2].m_mt = wave[1].m_mt


\* every tile possible in a cell is allowed by a tile possible in each of
\* its neighbors inside the field
LocallyConsistent(w) ==
    \A c \in 0 .. (Len(w.m_field) - 1) : \A d \in Dirs :
        CellAt(w, c, d) # -1 => Bits(w.m_field[c + 1]) \subseteq AllowedSet(w, c, d)

\* C27 (as claimed): when an observation step is over and the fallback has
\* not fired in it, neither in the observed cell nor in the propagation,
\* the field is locally consistent: for every cell c and every direction d
\* with a neighbor inside the field, every tile possible in c is allowed by
\* a tile possible in that neighbor.
C27_LocallyConsistent ==
    (call[1].pc = "loop" /\ wave[1].m_uncertaintyCurrent > Len(wave[1].m_field)) =>
        \A o \in StepOutcomes(wave[1], call[1].id0) :
            (o.ps.ok /\ ~o.fallback /\ o.ps.fell = {}) => LocallyConsistent(o.ps.w)

====
